---- MODULE Spec2Model ----
(***************************************************************************)
(* Weighted scoring and gap prioritisation in the five dashboards:         *)
(* Civic_KPIs.py, civic_KPIs_prototype.py, PIP_prototype.py,               *)
(* IMS_PIA_prototype.py and PIP_indicators_mexico_case.py.                 *)
(*                                                                         *)
(* Every dashboard is a script that is run again from top to bottom each   *)
(* time a widget changes.  One action of the model is one widget change    *)
(* followed by the whole script run.                                       *)
(*                                                                         *)
(* Numbers.  Performance values, targets and gaps are integers in percent  *)
(* (0.65 is 65).  A normalised weight is the exact fraction num[c] / den   *)
(* kept as the record [num, den]; the composite score is the numerator     *)
(* score over the denominator 100 * den.  Floating-point rounding is not   *)
(* modelled.                                                               *)
(***************************************************************************)
EXTENDS Integers, Sequences, FiniteSets, TLC

VARIABLES variant, raw, context, performance, weights, score, gaps,
          weighted_gaps, sorted_gaps, priorities, top_priority, potential,
          impact, call, other, page, tools, tool_tab

vars == <<variant, raw, context, performance, weights, score, gaps,
          weighted_gaps, sorted_gaps, priorities, top_priority, potential,
          impact, call, other, page, tools, tool_tab>>

(***************************************************************************)
(* Bounds of the model.                                                    *)
(***************************************************************************)
\* a slider takes its default or one of its lowest MaxRaw + 1 positions
MaxRaw == 0
\* a random draw takes one of PerfGrid + 1 values spread over its range
PerfGrid == 1
\* the shared normal noise of the last week of PIP_prototype.py, in percent
PIP_noise == 0
\* a supplied performance value is at its target or MaxOffset percent off it
MaxOffset == 5

(***************************************************************************)
(* Helpers.                                                                *)
(***************************************************************************)
Range(s) == {s[i] : i \in 1..Len(s)}

Abs(x) == IF x < 0 THEN -x ELSE x

Min(a, b) == IF a < b THEN a ELSE b

RECURSIVE SeqSum(_, _)
\* sum of f[c] over the categories of the sequence cats, in iteration order
SeqSum(cats, f) ==
    IF cats = <<>> THEN 0 ELSE f[Head(cats)] + SeqSum(Tail(cats), f)

RECURSIVE SetSum(_, _)
\* sum of f[c] over a set of categories
SetSum(S, f) ==
    IF S = {} THEN 0
    ELSE LET c == CHOOSE x \in S : TRUE IN f[c] + SetSum(S \ {c}, f)

Reverse(s) == [i \in 1..Len(s) |-> s[Len(s) + 1 - i]]

Take(s, n) == SubSeq(s, 1, Min(n, Len(s)))

RECURSIVE Filter(_, _)
\* the elements of s that are in the set Keep, in the order of s
Filter(s, Keep) ==
    IF s = <<>> THEN <<>>
    ELSE IF Head(s) \in Keep THEN <<Head(s)>> \o Filter(Tail(s), Keep)
         ELSE Filter(Tail(s), Keep)

RECURSIVE InsertDesc(_, _, _)
\* x goes after every element whose key is at least key[x]
InsertDesc(s, x, key) ==
    IF s = <<>> THEN <<x>>
    ELSE IF key[Head(s)] >= key[x]
         THEN <<Head(s)>> \o InsertDesc(Tail(s), x, key)
         ELSE <<x>> \o s

RECURSIVE SortedReverse(_, _)
\* sorted(items, key=..., reverse=True): descending by key, equal keys keep
\* their original order
SortedReverse(s, key) ==
    IF s = <<>> THEN <<>>
    ELSE InsertDesc(SortedReverse(SubSeq(s, 1, Len(s) - 1), key), s[Len(s)], key)

RECURSIVE InsertAsc(_, _, _)
\* x goes after every element whose key is at most key[x]
InsertAsc(s, x, key) ==
    IF s = <<>> THEN <<x>>
    ELSE IF key[Head(s)] <= key[x]
         THEN <<Head(s)>> \o InsertAsc(Tail(s), x, key)
         ELSE <<x>> \o s

RECURSIVE ArgSort(_, _)
\* ascending sort of a short array (insertion sort: equal keys keep order)
ArgSort(s, key) ==
    IF s = <<>> THEN <<>>
    ELSE InsertAsc(ArgSort(SubSeq(s, 1, Len(s) - 1), key), s[Len(s)], key)

RECURSIVE Orders(_, _)
\* every arrangement of the rows S in descending order of key
Orders(S, key) ==
    IF S = {} THEN {<<>>}
    ELSE UNION {{<<x>> \o t : t \in Orders(S \ {x}, key)} :
                x \in {y \in S : \A z \in S : key[y] >= key[z]}}

\* DataFrame.sort_values(col, ascending=False) with the default
\* kind="quicksort": the rows are reversed, sorted ascending and reversed
\* again.  The quicksort of the array library is not a stable sort, so rows
\* with equal keys come out in an order that depends on the build: the
\* result is one of the descending arrangements.  A build whose quicksort
\* sorts a short array by insertion returns Reverse(ArgSort(Reverse(s), key)).
SortValuesDescending(s, key) ==
    LET inserted == Reverse(ArgSort(Reverse(s), key))
    IN IF \A i \in 1..(Len(s) - 1) : key[inserted[i]] # key[inserted[i + 1]]
       THEN {inserted}
       ELSE Orders(Range(s), key)

RECURSIVE MaxItem(_, _)
\* max(items, key=...): the first item with the largest key
MaxItem(s, key) ==
    IF Len(s) = 1 THEN s[1]
    ELSE LET m == MaxItem(SubSeq(s, 1, Len(s) - 1), key)
         IN IF key[s[Len(s)]] > key[m] THEN s[Len(s)] ELSE m

Between(lo, hi) == [lo |-> lo, hi |-> hi]

\* the vectors of independent uniform draws the model enumerates: every
\* draw is the k-th of PerfGrid + 1 values spread over ranges[c].lo ..
\* ranges[c].hi; either every draw of a vector is at an end of its range, or
\* one draw is at an inner value and the others are all at the same end
Draws(ranges) ==
    {[c \in DOMAIN ranges |->
        ranges[c].lo + ((k[c] * (ranges[c].hi - ranges[c].lo)) \div PerfGrid)] :
     k \in {i \in [DOMAIN ranges -> 0..PerfGrid] :
              LET inner == {c \in DOMAIN ranges : i[c] \notin {0, PerfGrid}}
              IN \/ inner = {}
                 \/ /\ Cardinality(inner) = 1
                    /\ \A c, d \in DOMAIN ranges \ inner : i[c] = i[d]}}

\* the positions of a slider that the model enumerates
SliderLevels(s) ==
    {s.default} \cup
    {x \in {s.min + k * s.step : k \in 0..MaxRaw} : x <= s.max}

Slider(lo, hi, default, step) ==
    [min |-> lo, max |-> hi, default |-> default, step |-> step]

\* the outcome of a call: a value, or the KeyError of a failed lookup
Ok(v) == [status |-> "ok", value |-> v]

KeyError == [status |-> "KeyError", value |-> 0]

Pending == [status |-> "pending", value |-> 0]

\* no impact model on the page
NoImpact == [status |-> "none", improvement_target |-> 0, projected_score |-> 0]

NoContext == [connectivity |-> "-", literacy_level |-> "-",
              regulatory_pressure |-> "-"]

(***************************************************************************)
(* Civic_KPIs.py                                                           *)
(***************************************************************************)
CK_categories ==
    <<"Educate Me", "Give Me Perspective", "Help Me", "Update Me", "Inspire Me">>

\* the keys of the dictionaries of the script
CK_keys == Range(CK_categories)

\* the five weight sliders
CK_sliders ==
    ("Educate Me" :> Slider(0, 100, 35, 1)) @@
    ("Give Me Perspective" :> Slider(0, 100, 25, 1)) @@
    ("Help Me" :> Slider(0, 100, 20, 1)) @@
    ("Update Me" :> Slider(0, 100, 10, 1)) @@
    ("Inspire Me" :> Slider(0, 100, 10, 1))

\* the last row of generate_sample_data(): uniform draws from [lo, hi)
CK_generate_sample_data ==
    Draws(("Educate Me" :> Between(30, 69)) @@
          ("Give Me Perspective" :> Between(40, 79)) @@
          ("Help Me" :> Between(10, 39)) @@
          ("Update Me" :> Between(50, 89)) @@
          ("Inspire Me" :> Between(20, 59)))

\* the target every category is compared with
CK_target == 70

\* CK_weights with the fallback weight written as 1 instead of 0.2
CK_weights_fallback_one(r) ==
    LET total_weight == r["Educate Me"] + r["Give Me Perspective"]
                        + r["Help Me"] + r["Update Me"] + r["Inspire Me"]
    IN IF total_weight > 0
       THEN [num |-> [k \in CK_keys |-> r[k]], den |-> total_weight]
       ELSE [num |-> [k \in CK_keys |-> 1], den |-> 1]

\* "Normalize weights"
CK_weights(r) ==
    LET total_weight == r["Educate Me"] + r["Give Me Perspective"]
                        + r["Help Me"] + r["Update Me"] + r["Inspire Me"]
    IN IF total_weight > 0
       THEN [num |-> [k \in CK_keys |-> r[k]], den |-> total_weight]
       ELSE [num |-> [k \in CK_keys |-> 1], den |-> 5]

\* scores = {...: row[...]} needs the five columns of row; then
\* sum(scores[k] * weights[k] for k in weights.keys())
calculate_public_interest_score(row, w) ==
    IF ~(CK_keys \subseteq DOMAIN row) THEN KeyError
    ELSE IF ~(DOMAIN w.num \subseteq CK_keys) THEN KeyError
    ELSE Ok(SeqSum(Filter(CK_categories, DOMAIN w.num),
                   [k \in DOMAIN w.num |-> row[k] * w.num[k]]))

CK_performance_gaps(perf) ==
    [k \in CK_keys |-> CK_target - perf[k]]

\* CK_sorted_gaps without reverse=True
CK_sorted_gaps_ascending(g) == ArgSort(CK_categories, g)

\* sorted(performance_gaps.items(), key=lambda x: x[1], reverse=True)
CK_sorted_gaps(g) == SortedReverse(CK_categories, g)

\* for (category, gap) in sorted_gaps[:3]: if gap > 0: st.warning(...)
CK_priorities(sg, g) ==
    Filter(Take(sg, 3), {k \in CK_keys : g[k] > 0})

\* the recommendation lists written under the priorities: the if / elif
\* chain has a branch for three of the five categories
CK_recommendation_blocks(prios) ==
    {category \in Range(prios) :
        category \in {"Educate Me", "Give Me Perspective", "Help Me"}}

\* one run of the script
CK_script(r, perf) ==
    LET w == CK_weights(r)
        g == CK_performance_gaps(perf)
        sg == CK_sorted_gaps(g)
    IN [weights |-> w,
        score |-> calculate_public_interest_score(perf, w).value,
        gaps |-> g,
        weighted_gaps |-> <<>>,
        sorted_gaps |-> sg,
        priorities |-> CK_priorities(sg, g),
        top_priority |-> "none",
        potential |-> 0,
        impact |-> NoImpact,
        page |-> [blocks |-> CK_recommendation_blocks(CK_priorities(sg, g))]]

(***************************************************************************)
(* civic_KPIs_prototype.py                                                 *)
(***************************************************************************)
CKP_categories == <<"Educate", "Perspective", "Help", "Update", "Inspire">>

CKP_keys == Range(CKP_categories)

CKP_sliders ==
    ("Educate" :> Slider(0, 10, 4, 1)) @@
    ("Perspective" :> Slider(0, 10, 3, 1)) @@
    ("Help" :> Slider(0, 10, 2, 1)) @@
    ("Update" :> Slider(0, 10, 1, 1)) @@
    ("Inspire" :> Slider(0, 10, 1, 1))

\* current_performance of get_mock_performance_data(): uniform draws from
\* [lo, hi)
CKP_current_performance ==
    Draws(("Educate" :> Between(50, 69)) @@
          ("Perspective" :> Between(40, 59)) @@
          ("Help" :> Between(20, 39)) @@
          ("Update" :> Between(60, 79)) @@
          ("Inspire" :> Between(30, 49)))

CKP_targets ==
    ("Educate" :> 70) @@ ("Perspective" :> 65) @@ ("Help" :> 50) @@
    ("Update" :> 75) @@ ("Inspire" :> 60)

\* "Normalize weights": a zero total is replaced by 1 before dividing
CKP_weights(r) ==
    LET sum == r["Educate"] + r["Perspective"] + r["Help"] + r["Update"]
               + r["Inspire"]
        total == IF sum = 0 THEN 1 ELSE sum
    IN [num |-> [k \in CKP_keys |-> r[k]], den |-> total]

\* sum(performance[k] * weights[k] for k in weights.keys())
CKP_public_interest_score(perf, w) ==
    SeqSum(CKP_categories, [k \in CKP_keys |-> perf[k] * w.num[k]])

CKP_gaps(perf) == [k \in CKP_keys |-> CKP_targets[k] - perf[k]]

\* max(gaps.items(), key=lambda x: x[1])
CKP_biggest_gap(g) == MaxItem(CKP_categories, g)

\* numerators of gaps[k] * weights[k]; the common denominator is w.den
CKP_weighted_gaps(g, w) == [k \in CKP_keys |-> g[k] * w.num[k]]

\* CKP_potential without max(0, ...)
CKP_potential_not_clamped(perf, w) ==
    SeqSum(CKP_categories,
           [k \in CKP_keys |-> (CKP_targets[k] - perf[k]) * w.num[k]])

\* potential = sum(max(0, targets[k] - performance[k]) * weights[k]
\*                 for k in weights.keys())
CKP_potential(perf, w) ==
    SeqSum(CKP_categories,
           [k \in CKP_keys |->
               (IF CKP_targets[k] - perf[k] > 0 THEN CKP_targets[k] - perf[k]
                ELSE 0) * w.num[k]])

\* CKP_sorted_gaps without reverse=True
CKP_sorted_gaps_ascending(wg) == ArgSort(CKP_categories, wg)

\* sorted(weighted_gaps.items(), key=lambda x: x[1], reverse=True)
CKP_sorted_gaps(wg) == SortedReverse(CKP_categories, wg)

\* CKP_priorities with the test gaps[category] >= 0
CKP_priorities_not_negative(sg, g) ==
    Filter(Take(sg, 3), {k \in CKP_keys : g[k] >= 0})

\* for category, weighted_gap in sorted_gaps[:3]: if gaps[category] > 0
CKP_priorities(sg, g) ==
    Filter(Take(sg, 3), {k \in CKP_keys : g[k] > 0})

\* "Specific recommendations by category": the if / elif chain has a
\* branch for each of the five categories
CKP_recommendation_blocks(prios) ==
    {category \in Range(prios) :
        category \in {"Educate", "Perspective", "Help", "Update", "Inspire"}}

CKP_script(r, perf) ==
    LET w == CKP_weights(r)
        g == CKP_gaps(perf)
        wg == CKP_weighted_gaps(g, w)
        sg == CKP_sorted_gaps(wg)
    IN [weights |-> w,
        score |-> CKP_public_interest_score(perf, w),
        gaps |-> g,
        weighted_gaps |-> wg,
        sorted_gaps |-> sg,
        priorities |-> CKP_priorities(sg, g),
        top_priority |-> CKP_biggest_gap(g),
        potential |-> CKP_potential(perf, w),
        impact |-> NoImpact,
        page |-> [blocks |-> CKP_recommendation_blocks(CKP_priorities(sg, g))]]

(***************************************************************************)
(* PIP_prototype.py                                                        *)
(***************************************************************************)
PIP_categories ==
    <<"democratic_empowerment", "information_integrity", "community_control",
      "user_rights_protection", "inclusion_access", "sustainability">>

PIP_keys == Range(PIP_categories)

\* PIP_sliders with the lower bounds at 0
PIP_sliders_from_zero ==
    ("democratic_empowerment" :> Slider(0, 10, 5, 1)) @@
    ("information_integrity" :> Slider(0, 6, 4, 1)) @@
    ("community_control" :> Slider(0, 6, 4, 1)) @@
    ("user_rights_protection" :> Slider(0, 5, 3, 1)) @@
    ("inclusion_access" :> Slider(0, 4, 2, 1)) @@
    ("sustainability" :> Slider(0, 4, 2, 1))

\* the weight sliders, in units of the slider step 0.05
PIP_sliders ==
    ("democratic_empowerment" :> Slider(2, 10, 5, 1)) @@
    ("information_integrity" :> Slider(2, 6, 4, 1)) @@
    ("community_control" :> Slider(2, 6, 4, 1)) @@
    ("user_rights_protection" :> Slider(2, 5, 3, 1)) @@
    ("inclusion_access" :> Slider(1, 4, 2, 1)) @@
    ("sustainability" :> Slider(1, 4, 2, 1))

\* np.clip(x, 0, 1)
Clip(x) == IF x < 0 THEN 0 ELSE IF x > 100 THEN 100 ELSE x

\* the last row of load_infrastructure_data(): base_trend ends at 0.7, the
\* normal noise is shared by the columns, every column adds a uniform draw
\* of its own from [lo, hi)
PIP_load_infrastructure_data ==
    {[c \in PIP_keys |->
        CASE c = "democratic_empowerment" -> Clip(70 + PIP_noise + u[c])
          [] c = "information_integrity" ->
                Clip(70 + ((8 * PIP_noise) \div 10) + u[c])
          [] c = "community_control" -> Clip(49 + PIP_noise + u[c])
          [] c = "user_rights_protection" ->
                Clip(84 + ((6 * PIP_noise) \div 10) + u[c])
          [] c = "inclusion_access" -> Clip(63 + PIP_noise + u[c])
          [] OTHER -> Clip(70 + ((7 * PIP_noise) \div 10) + u[c])] :
     u \in Draws(("democratic_empowerment" :> Between(-20, 19)) @@
                 ("information_integrity" :> Between(-10, 29)) @@
                 ("community_control" :> Between(-30, 9)) @@
                 ("user_rights_protection" :> Between(-10, 19)) @@
                 ("inclusion_access" :> Between(-20, 19)) @@
                 ("sustainability" :> Between(-15, 24)))}

PIP_target_performance ==
    ("democratic_empowerment" :> 70) @@ ("information_integrity" :> 80) @@
    ("community_control" :> 60) @@ ("user_rights_protection" :> 85) @@
    ("inclusion_access" :> 65) @@ ("sustainability" :> 75)

\* PIP_normalized_weights with sustain_weight left out of total_weights
PIP_normalized_weights_short_total(r) ==
    LET total_weights == r["democratic_empowerment"] + r["information_integrity"]
                         + r["community_control"] + r["user_rights_protection"]
                         + r["inclusion_access"]
    IN [num |-> [k \in PIP_keys |-> r[k]], den |-> total_weights]

\* "Normalize weights to sum to 1": no guard for a zero total
PIP_normalized_weights(r) ==
    LET total_weights == r["democratic_empowerment"] + r["information_integrity"]
                         + r["community_control"] + r["user_rights_protection"]
                         + r["inclusion_access"] + r["sustainability"]
    IN [num |-> [k \in PIP_keys |-> r[k]], den |-> total_weights]

\* calculate_weighted_score with "sustainability" missing from categories
calculate_weighted_score_skips_last(data_row, weight_dict) ==
    IF ~(PIP_keys \subseteq DOMAIN data_row) THEN KeyError
    ELSE IF ~(PIP_keys \subseteq DOMAIN weight_dict.num) THEN KeyError
    ELSE Ok(SeqSum(SubSeq(PIP_categories, 1, 5),
                   [k \in PIP_keys |->
                       data_row[k] * weight_dict.num[k]]))

\* for category in categories:
\*     total_score += data_row[category] * weight_dict[category]
calculate_weighted_score(data_row, weight_dict) ==
    IF ~(PIP_keys \subseteq DOMAIN data_row) THEN KeyError
    ELSE IF ~(PIP_keys \subseteq DOMAIN weight_dict.num) THEN KeyError
    ELSE Ok(SeqSum(PIP_categories,
                   [k \in PIP_keys |->
                       data_row[k] * weight_dict.num[k]]))

PIP_gap(perf) ==
    [k \in PIP_keys |-> PIP_target_performance[k] - perf[k]]

\* "Priority Score": abs(gap * weight), numerator over w.den
PIP_priority_score(g, w) ==
    [k \in PIP_keys |-> Abs(g[k] * w.num[k])]

\* gap_df.sort_values("Priority Score", ascending=False): the orders of the
\* rows that the sort may return
PIP_gap_df(ps) == SortValuesDescending(PIP_categories, ps)

\* the status of a category in the Performance Summary
PIP_status_indicator(performance_gap) ==
    IF performance_gap < 10 THEN "On Track"
    ELSE IF performance_gap < 20 THEN "Needs Attention" ELSE "Critical Gap"

\* the Critical Gap Alert is shown for top_priority
PIP_alert(gdf, g) == g[gdf[1]] > 20

\* st.slider("Model improvement in ... to:", current, 1.0,
\*           min(target, 0.9), 0.05)
PIP_improvement_slider(perf, top) ==
    Slider(perf[top], 100, Min(PIP_target_performance[top], 90), 5)

\* PIP_adjusted_performance adding improvement_target to the current value
PIP_adjusted_performance_added(perf, top, improvement_target) ==
    [perf EXCEPT ![top] = perf[top] + improvement_target]

\* adjusted_performance = current_performance.copy()
\* adjusted_performance[category_key] = improvement_target
PIP_adjusted_performance(perf, top, improvement_target) ==
    [perf EXCEPT ![top] = improvement_target]

\* "Impact Modeling".  The slider has no key: it is the widget of the run
\* before, and keeps its value, when its label and bounds are the same,
\* which they are when the top priority is the same; otherwise it is a new
\* widget at its default.  st.slider raises StreamlitAPIException when the
\* default is not between the bounds, and the run ends there.
PIP_impact(perf, w, top, top_before, impact_before) ==
    LET sl == PIP_improvement_slider(perf, top)
    IN IF sl.default < sl.min \/ sl.default > sl.max
       THEN [status |-> "StreamlitAPIException", improvement_target |-> 0,
             projected_score |-> 0]
       ELSE LET improvement_target ==
                    IF impact_before.status = "ok" /\ top_before = top
                    THEN impact_before.improvement_target
                    ELSE sl.default
            IN [status |-> "ok",
                improvement_target |-> improvement_target,
                projected_score |->
                    calculate_weighted_score(
                        PIP_adjusted_performance(perf, top, improvement_target),
                        w).value]

\* one run of main(): the displays it may produce
PIP_script(r, perf, top_before, impact_before) ==
    LET w == PIP_normalized_weights(r)
        g == PIP_gap(perf)
        ps == PIP_priority_score(g, w)
    IN {[weights |-> w,
         score |-> calculate_weighted_score(perf, w).value,
         gaps |-> g,
         weighted_gaps |-> ps,
         sorted_gaps |-> gdf,
         priorities |-> IF PIP_alert(gdf, g) THEN <<gdf[1]>> ELSE <<>>,
         top_priority |-> gdf[1],
         potential |-> 0,
         impact |-> PIP_impact(perf, w, gdf[1], top_before, impact_before),
         page |-> [status |-> [k \in PIP_keys |-> PIP_status_indicator(g[k])]]] :
        gdf \in PIP_gap_df(ps)}

(***************************************************************************)
(* IMS_PIA_prototype.py and PIP_indicators_mexico_case.py                  *)
(***************************************************************************)
IMS_categories == <<"privacy", "community", "sustainability">>

IMS_keys == Range(IMS_categories)

\* IMS_sliders with a lower bound below zero
IMS_sliders_negative ==
    ("privacy" :> Slider(-5, 100, 35, 5)) @@
    ("community" :> Slider(-5, 100, 35, 5)) @@
    ("sustainability" :> Slider(-5, 100, 30, 5))

\* the three weight sliders: 0..100 in steps of 5
IMS_sliders ==
    ("privacy" :> Slider(0, 100, 35, 5)) @@
    ("community" :> Slider(0, 100, 35, 5)) @@
    ("sustainability" :> Slider(0, 100, 30, 5))

MEX_sliders ==
    ("privacy" :> Slider(0, 100, 35, 5)) @@
    ("community" :> Slider(0, 100, 35, 5)) @@
    ("sustainability" :> Slider(0, 100, 30, 5))

\* the three select_slider widgets of the operating context
IMS_contexts ==
    [connectivity : {"None", "Low", "Medium", "High"},
     literacy_level : {"Low", "Medium", "High"},
     regulatory_pressure : {"Low", "Medium", "High", "Severe"}]

MEX_contexts ==
    [connectivity : {"None", "Low", "Medium", "High"},
     literacy_level : {"Low", "Medium", "High"},
     regulatory_pressure : {"Low", "Medium", "High", "Severe"}]

IMS_default_context ==
    [connectivity |-> "Medium", literacy_level |-> "Medium",
     regulatory_pressure |-> "Medium"]

MEX_default_context ==
    [connectivity |-> "Medium", literacy_level |-> "Medium",
     regulatory_pressure |-> "Medium"]

IMS_target == ("privacy" :> 80) @@ ("community" :> 75) @@ ("sustainability" :> 70)

MEX_target == ("privacy" :> 80) @@ ("community" :> 75) @@ ("sustainability" :> 70)

\* IMS_weights with fallback weights of 0.5 each
IMS_weights_fallback_halves(r) ==
    LET total_weight == r["privacy"] + r["community"] + r["sustainability"]
    IN IF total_weight > 0
       THEN [num |-> [k \in IMS_keys |-> r[k]], den |-> total_weight]
       ELSE [num |-> ("privacy" :> 50) @@ ("community" :> 50)
                     @@ ("sustainability" :> 50),
             den |-> 100]

\* "Normalize weights", with the weights used when every slider is at 0
IMS_weights(r) ==
    LET total_weight == r["privacy"] + r["community"] + r["sustainability"]
    IN IF total_weight > 0
       THEN [num |-> [k \in IMS_keys |-> r[k]], den |-> total_weight]
       ELSE [num |-> ("privacy" :> 33) @@ ("community" :> 33)
                     @@ ("sustainability" :> 34),
             den |-> 100]

MEX_weights(r) ==
    LET total_weight == r["privacy"] + r["community"] + r["sustainability"]
    IN IF total_weight > 0
       THEN [num |-> [k \in IMS_keys |-> r[k]], den |-> total_weight]
       ELSE [num |-> ("privacy" :> 33) @@ ("community" :> 33)
                     @@ ("sustainability" :> 34),
             den |-> 100]

\* "Calculate scores based on context"
IMS_scores(ctx) ==
    ("privacy" :>
        IF ctx.regulatory_pressure \in {"High", "Severe"} THEN 40 ELSE 60) @@
    ("community" :> IF ctx.literacy_level = "Low" THEN 50 ELSE 70) @@
    ("sustainability" :>
        IF ctx.connectivity \in {"None", "Low"} THEN 30 ELSE 50)

MEX_scores(ctx) ==
    ("privacy" :>
        IF ctx.regulatory_pressure \in {"High", "Severe"} THEN 40 ELSE 60) @@
    ("community" :> IF ctx.literacy_level = "Low" THEN 50 ELSE 70) @@
    ("sustainability" :>
        IF ctx.connectivity \in {"None", "Low"} THEN 30 ELSE 50)

IMS_calculate_overall_score(privacy, community, sustainability, w) ==
    IF ~(IMS_keys \subseteq DOMAIN w.num) THEN KeyError
    ELSE Ok(privacy * w.num["privacy"] + community * w.num["community"]
            + sustainability * w.num["sustainability"])

\* return responses[dimension] if dimension in responses else 0.5
IMS_calculate_dimension_score(responses, dimension) ==
    IF dimension \in DOMAIN responses THEN Ok(responses[dimension]) ELSE Ok(50)

MEX_calculate_overall_score(privacy, community, sustainability, w) ==
    IF ~(IMS_keys \subseteq DOMAIN w.num) THEN KeyError
    ELSE Ok(privacy * w.num["privacy"] + community * w.num["community"]
            + sustainability * w.num["sustainability"])

\* return responses[dimension] if dimension in responses else 0.5
MEX_calculate_dimension_score(responses, dimension) ==
    IF dimension \in DOMAIN responses THEN Ok(responses[dimension]) ELSE Ok(50)

\* the areas a recommendation is generated for, in order
IMS_recommendations(s) ==
    (IF s["privacy"] < 50 THEN <<"privacy">> ELSE <<>>)
    \o (IF s["community"] < 60 THEN <<"community">> ELSE <<>>)
    \o (IF s["sustainability"] < 50 THEN <<"sustainability">> ELSE <<>>)

MEX_recommendations(s) ==
    (IF s["privacy"] < 50 THEN <<"privacy">> ELSE <<>>)
    \o (IF s["community"] < 60 THEN <<"community">> ELSE <<>>)
    \o (IF s["sustainability"] < 50 THEN <<"sustainability">> ELSE <<>>)

\* the recommendations of the recommendations tab, in order
IMS_recommendation_list(s) ==
    (IF s["privacy"] < 50
     THEN <<[Priority |-> "HIGH", Area |-> "Privacy & Security",
             Action |-> "Implement encrypted communication tools"]>>
     ELSE <<>>)
    \o (IF s["community"] < 60
        THEN <<[Priority |-> "MEDIUM", Area |-> "Community Ownership",
                Action |-> "Build local language tools"]>>
        ELSE <<>>)
    \o (IF s["sustainability"] < 50
        THEN <<[Priority |-> "MEDIUM", Area |-> "Sustainability",
                Action |-> "Reduce platform dependency"]>>
        ELSE <<>>)

\* report_data of the export tab
IMS_report_data(s, recommendations) ==
    [Primary_Gaps |->
        (IF s["privacy"] < 50 THEN <<"Privacy & Security">> ELSE <<>>)
        \o (IF s["community"] < 60 THEN <<"Community Ownership">> ELSE <<>>)
        \o (IF s["sustainability"] < 50
            THEN <<"Platform Sustainability">> ELSE <<>>),
     Key_Recommendations |->
        [i \in 1..Min(3, Len(recommendations)) |-> recommendations[i].Action]]

IMS_script(r, ctx) ==
    LET w == IMS_weights(r)
        s == IMS_scores(ctx)
    IN [weights |-> w,
        score |-> IMS_calculate_overall_score(s["privacy"], s["community"],
                                              s["sustainability"], w).value,
        gaps |-> [k \in IMS_keys |-> IMS_target[k] - s[k]],
        weighted_gaps |-> <<>>,
        sorted_gaps |-> <<>>,
        priorities |-> IMS_recommendations(s),
        top_priority |-> "none",
        potential |-> 0,
        impact |-> NoImpact,
        page |-> [recommendations |-> IMS_recommendation_list(s),
                  report_data |->
                      IMS_report_data(s, IMS_recommendation_list(s))]]

\* the recommendations of the recommendations tab, in order
MEX_recommendation_list(s) ==
    (IF s["privacy"] < 50
     THEN <<[Priority |-> "HIGH", Area |-> "Privacy & Security",
             Action |-> "Implement encrypted communication tools"]>>
     ELSE <<>>)
    \o (IF s["community"] < 60
        THEN <<[Priority |-> "MEDIUM", Area |-> "Community Ownership",
                Action |-> "Build local language tools"]>>
        ELSE <<>>)
    \o (IF s["sustainability"] < 50
        THEN <<[Priority |-> "MEDIUM", Area |-> "Sustainability",
                Action |-> "Reduce platform dependency"]>>
        ELSE <<>>)

\* report_data of the export tab
MEX_report_data(s, recommendations) ==
    [Primary_Gaps |->
        (IF s["privacy"] < 50 THEN <<"Privacy & Security">> ELSE <<>>)
        \o (IF s["community"] < 60 THEN <<"Community Ownership">> ELSE <<>>)
        \o (IF s["sustainability"] < 50
            THEN <<"Platform Sustainability">> ELSE <<>>),
     Key_Recommendations |->
        [i \in 1..Min(3, Len(recommendations)) |-> recommendations[i].Action]]

MEX_script(r, ctx) ==
    LET w == MEX_weights(r)
        s == MEX_scores(ctx)
    IN [weights |-> w,
        score |-> MEX_calculate_overall_score(s["privacy"], s["community"],
                                              s["sustainability"], w).value,
        gaps |-> [k \in IMS_keys |-> MEX_target[k] - s[k]],
        weighted_gaps |-> <<>>,
        sorted_gaps |-> <<>>,
        priorities |-> MEX_recommendations(s),
        top_priority |-> "none",
        potential |-> 0,
        impact |-> NoImpact,
        page |-> [recommendations |-> MEX_recommendation_list(s),
                  report_data |->
                      MEX_report_data(s, MEX_recommendation_list(s))]]

(***************************************************************************)
(* The tool assessment tab of IMS_PIA_prototype.py and                     *)
(* PIP_indicators_mexico_case.py.  The value of the multiselect is kept as *)
(* the set of selected tools: the table has one row per selected tool and  *)
(* the warning is decided over all rows, whatever their order.  Scores are *)
(* integers in percent, a formatted percentage is an integer number of     *)
(* tenths of a percent ("47.5%" is 475).                                   *)
(***************************************************************************)
\* the options of st.multiselect
IMS_tool_options ==
    {"WhatsApp", "Signal", "Telegram", "Facebook", "Twitter/X", "Email Lists",
     "Forums", "WordPress", "Custom Platform", "Bluetooth Share", "SMS",
     "Radio", "Other"}

MEX_tool_options ==
    {"WhatsApp", "Signal", "Telegram", "Facebook", "Twitter/X", "Email Lists",
     "Forums", "WordPress", "Custom Platform", "Bluetooth Sharing", "SMS",
     "Radio", "Other"}

\* default=["WhatsApp", "Facebook"]
IMS_tools_default == {"WhatsApp", "Facebook"}

MEX_tools_default == {"WhatsApp", "Facebook"}

ToolScore(privacy, reach, cost, control) ==
    [Privacy |-> privacy, Reach |-> reach, Cost |-> cost, Control |-> control]

\* the dictionary tool_scores of main()
IMS_tool_scores ==
    ("WhatsApp" :> ToolScore(20, 90, 90, 10)) @@
    ("Signal" :> ToolScore(90, 30, 90, 70)) @@
    ("Telegram" :> ToolScore(60, 70, 80, 50)) @@
    ("Facebook" :> ToolScore(10, 95, 80, 5)) @@
    ("Twitter/X" :> ToolScore(20, 80, 90, 10)) @@
    ("Email Lists" :> ToolScore(40, 50, 60, 80)) @@
    ("Forums" :> ToolScore(70, 50, 40, 90)) @@
    ("WordPress" :> ToolScore(60, 70, 50, 80)) @@
    ("Custom Platform" :> ToolScore(80, 40, 20, 100)) @@
    ("Bluetooth Share" :> ToolScore(90, 20, 95, 80)) @@
    ("SMS" :> ToolScore(30, 80, 70, 20)) @@
    ("Radio" :> ToolScore(50, 90, 30, 40))

\* the dictionary scores of main()
MEX_tool_scores ==
    ("WhatsApp" :> ToolScore(20, 90, 90, 10)) @@
    ("Signal" :> ToolScore(90, 30, 90, 70)) @@
    ("Facebook" :> ToolScore(10, 95, 80, 5)) @@
    ("Forums" :> ToolScore(70, 50, 40, 90))

\* tool_scores.get(tool, {"Privacy": 0.5, "Reach": 0.5, "Cost": 0.5,
\*                        "Control": 0.5})
ToolScoreOf(table, tool) ==
    IF tool \in DOMAIN table THEN table[tool] ELSE ToolScore(50, 50, 50, 50)

\* f"{num / den:.1%}": the tenths of a percent nearest to num / den, the
\* even one of two that are equally near
FormatPercent(num, den) ==
    LET q == (1000 * num) \div den
        r == (1000 * num) % den
    IN IF 2 * r > den \/ (2 * r = den /\ q % 2 = 1) THEN q + 1 ELSE q

\* float(row["PI Score"].strip("%")) < 50
BelowFifty(formatted) == formatted < 500

\* the tool assessment tab of IMS_PIA_prototype.py: the rows of the Tool
\* Scoring Matrix and the warning under it.  main() never calls
\* create_trade_off_matrix, so that no chart and no red circle is drawn.
IMS_tool_tab(selected) ==
    LET PI_Score ==
            [tool \in selected |->
                LET scores == ToolScoreOf(IMS_tool_scores, tool)
                IN FormatPercent(scores.Privacy + scores.Control, 200)]
    IN [PI_Score |-> PI_Score,
        warning |-> \E tool \in selected : BelowFifty(PI_Score[tool]),
        red_circles |-> {}]

\* the tool evaluation tab of PIP_indicators_mexico_case.py: st.warning is
\* called whenever a tool is selected; its chart has no red circles
MEX_tool_tab(selected) ==
    [PI_Score |->
        [tool \in selected |->
            LET tool_score == ToolScoreOf(MEX_tool_scores, tool)
            IN FormatPercent(tool_score.Privacy + tool_score.Control, 200)],
     warning |-> selected # {},
     red_circles |-> {}]

\* a dashboard without tool assessment
NoToolTab == [PI_Score |-> <<>>, warning |-> FALSE, red_circles |-> {}]

(***************************************************************************)
(* The dashboards as one state machine.                                    *)
(***************************************************************************)
\* no function is being called on its own
NoCall == [function |-> "none", data |-> <<>>, weight_dict |-> <<>>,
           dimension |-> "-", result |-> Pending]

Categories(v) ==
    CASE v = "Civic_KPIs" -> CK_categories
      [] v = "civic_KPIs_prototype" -> CKP_categories
      [] v = "PIP_prototype" -> PIP_categories
      [] OTHER -> IMS_categories

Targets(v) ==
    CASE v = "Civic_KPIs" -> [k \in CK_keys |-> CK_target]
      [] v = "civic_KPIs_prototype" -> CKP_targets
      [] v = "PIP_prototype" -> PIP_target_performance
      [] v = "IMS_PIA_prototype" -> IMS_target
      [] OTHER -> MEX_target

Defaults(sliders) == [c \in DOMAIN sliders |-> sliders[c].default]

\* the tools selected when a dashboard is opened
ToolsDefault(v) ==
    CASE v = "IMS_PIA_prototype" -> IMS_tools_default
      [] v = "PIP_indicators_mexico_case" -> MEX_tools_default
      [] OTHER -> {}

\* the tool assessment of dashboard v for the selected tools
ToolTab(v, selected) ==
    CASE v = "IMS_PIA_prototype" -> IMS_tool_tab(selected)
      [] v = "PIP_indicators_mexico_case" -> MEX_tool_tab(selected)
      [] OTHER -> NoToolTab

\* the sliders of a dashboard
Sliders(v) ==
    CASE v = "Civic_KPIs" -> CK_sliders
      [] v = "civic_KPIs_prototype" -> CKP_sliders
      [] v = "PIP_prototype" -> PIP_sliders
      [] v = "IMS_PIA_prototype" -> IMS_sliders
      [] OTHER -> MEX_sliders

\* one run of the script of dashboard v: the displays it may produce
Script(v, r, ctx, perf, top_before, impact_before) ==
    CASE v = "Civic_KPIs" -> {CK_script(r, perf)}
      [] v = "civic_KPIs_prototype" -> {CKP_script(r, perf)}
      [] v = "PIP_prototype" -> PIP_script(r, perf, top_before, impact_before)
      [] v = "IMS_PIA_prototype" -> {IMS_script(r, ctx)}
      [] OTHER -> {MEX_script(r, ctx)}

\* Shown with the score of the run before left on display
Shown_keeps_score(out) ==
    /\ weights' = out.weights
    /\ score' = score
    /\ gaps' = out.gaps
    /\ weighted_gaps' = out.weighted_gaps
    /\ sorted_gaps' = out.sorted_gaps
    /\ priorities' = out.priorities
    /\ top_priority' = out.top_priority
    /\ potential' = out.potential
    /\ impact' = out.impact
    /\ page' = out.page
    /\ UNCHANGED call

\* the values shown after a run of the script
Shown(out) ==
    /\ weights' = out.weights
    /\ score' = out.score
    /\ gaps' = out.gaps
    /\ weighted_gaps' = out.weighted_gaps
    /\ sorted_gaps' = out.sorted_gaps
    /\ priorities' = out.priorities
    /\ top_priority' = out.top_priority
    /\ potential' = out.potential
    /\ impact' = out.impact
    /\ page' = out.page
    /\ UNCHANGED call

\* a second browser session of the same dashboard: its widget values and
\* what its last run displayed
Session(r, ctx, out) == [raw |-> r, context |-> ctx, shown |-> out]

\* no second session
NoSession == Session(<<>>, NoContext, <<>>)

Displayed(v, r, ctx, perf, out) ==
    /\ variant = v
    /\ raw = r
    /\ context = ctx
    /\ performance = perf
    /\ weights = out.weights
    /\ score = out.score
    /\ gaps = out.gaps
    /\ weighted_gaps = out.weighted_gaps
    /\ sorted_gaps = out.sorted_gaps
    /\ priorities = out.priorities
    /\ top_priority = out.top_priority
    /\ potential = out.potential
    /\ impact = out.impact
    /\ page = out.page
    /\ tools = ToolsDefault(v)
    /\ tool_tab = ToolTab(v, tools)
    /\ call = NoCall

Start(v, r, ctx, perf, out) ==
    /\ Displayed(v, r, ctx, perf, out)
    /\ other = NoSession

\* the first run: sliders at their defaults, the cached data freshly drawn
Init ==
    \/ \E perf \in CK_generate_sample_data :
          Start("Civic_KPIs", Defaults(CK_sliders), NoContext, perf,
                CK_script(Defaults(CK_sliders), perf))
    \/ \E perf \in CKP_current_performance :
          Start("civic_KPIs_prototype", Defaults(CKP_sliders), NoContext, perf,
                CKP_script(Defaults(CKP_sliders), perf))
    \/ \E perf \in PIP_load_infrastructure_data :
          \E out \in PIP_script(Defaults(PIP_sliders), perf, "none", NoImpact) :
              Start("PIP_prototype", Defaults(PIP_sliders), NoContext, perf, out)
    \/ Start("IMS_PIA_prototype", Defaults(IMS_sliders), IMS_default_context,
             IMS_scores(IMS_default_context),
             IMS_script(Defaults(IMS_sliders), IMS_default_context))
    \/ Start("PIP_indicators_mexico_case", Defaults(MEX_sliders),
             MEX_default_context, MEX_scores(MEX_default_context),
             MEX_script(Defaults(MEX_sliders), MEX_default_context))

\* CK_Rerun with weights kept in one place for every session
CK_Rerun_shared_weights(c, x) ==
    /\ variant = "Civic_KPIs"
    /\ x # raw[c]
    /\ raw' = [raw EXCEPT ![c] = x]
    /\ \E out \in {CK_script(raw', performance)} :
          /\ Shown(out)
          /\ other' = [other EXCEPT !.shown.weights = out.weights]
    /\ UNCHANGED <<variant, context, performance, tools, tool_tab>>

\* a weight slider of Civic_KPIs.py moves and the script runs again
CK_Rerun(c, x) ==
    /\ variant = "Civic_KPIs"
    /\ x # raw[c]
    /\ raw' = [raw EXCEPT ![c] = x]
    /\ \E out \in {CK_script(raw', performance)} : Shown(out)
    /\ UNCHANGED <<variant, context, performance, other, tools, tool_tab>>

\* a weight slider of civic_KPIs_prototype.py moves and the script runs again
CKP_Rerun(c, x) ==
    /\ variant = "civic_KPIs_prototype"
    /\ x # raw[c]
    /\ raw' = [raw EXCEPT ![c] = x]
    /\ \E out \in {CKP_script(raw', performance)} : Shown(out)
    /\ UNCHANGED <<variant, context, performance, other, tools, tool_tab>>

\* a weight slider of PIP_prototype.py moves and main() runs again
PIP_Rerun(c, x) ==
    /\ variant = "PIP_prototype"
    /\ x # raw[c]
    /\ raw' = [raw EXCEPT ![c] = x]
    /\ \E out \in PIP_script(raw', performance, top_priority, impact) :
          Shown(out)
    /\ UNCHANGED <<variant, context, performance, other, tools, tool_tab>>

\* the improvement slider of PIP_prototype.py moves and main() runs again:
\* the inputs of the sort are those of the run before, and so is its result
PIP_SetImprovement(x) ==
    /\ variant = "PIP_prototype"
    /\ impact.status = "ok"
    /\ x # impact.improvement_target
    /\ \E out \in PIP_script(raw, performance, top_priority,
                             [impact EXCEPT !.improvement_target = x]) :
          /\ out.sorted_gaps = sorted_gaps
          /\ Shown(out)
    /\ UNCHANGED <<variant, raw, context, performance, other, tools, tool_tab>>

\* a weight slider of IMS_PIA_prototype.py moves and main() runs again
IMS_Rerun(c, x) ==
    /\ variant = "IMS_PIA_prototype"
    /\ x # raw[c]
    /\ raw' = [raw EXCEPT ![c] = x]
    /\ \E out \in {IMS_script(raw', context)} : Shown(out)
    /\ tool_tab' = IMS_tool_tab(tools)
    /\ UNCHANGED <<variant, context, performance, other, tools>>

\* a context select_slider of IMS_PIA_prototype.py moves
IMS_SetContext(ctx) ==
    /\ variant = "IMS_PIA_prototype"
    /\ ctx # context
    /\ context' = ctx
    /\ performance' = IMS_scores(ctx)
    /\ \E out \in {IMS_script(raw, ctx)} : Shown(out)
    /\ tool_tab' = IMS_tool_tab(tools)
    /\ UNCHANGED <<variant, raw, other, tools>>

\* a weight slider of PIP_indicators_mexico_case.py moves
MEX_Rerun(c, x) ==
    /\ variant = "PIP_indicators_mexico_case"
    /\ x # raw[c]
    /\ raw' = [raw EXCEPT ![c] = x]
    /\ \E out \in {MEX_script(raw', context)} : Shown(out)
    /\ tool_tab' = MEX_tool_tab(tools)
    /\ UNCHANGED <<variant, context, performance, other, tools>>

\* a context select_slider of PIP_indicators_mexico_case.py moves
MEX_SetContext(ctx) ==
    /\ variant = "PIP_indicators_mexico_case"
    /\ ctx # context
    /\ context' = ctx
    /\ performance' = MEX_scores(ctx)
    /\ \E out \in {MEX_script(raw, ctx)} : Shown(out)
    /\ tool_tab' = MEX_tool_tab(tools)
    /\ UNCHANGED <<variant, raw, other, tools>>

Next ==
    \/ \E c \in CK_keys :
          \E x \in SliderLevels(CK_sliders[c]) : CK_Rerun(c, x)
    \/ \E c \in CKP_keys :
          \E x \in SliderLevels(CKP_sliders[c]) : CKP_Rerun(c, x)
    \/ \E c \in PIP_keys :
          \E x \in SliderLevels(PIP_sliders[c]) : PIP_Rerun(c, x)
    \/ \E c \in IMS_keys :
          \E x \in SliderLevels(IMS_sliders[c]) : IMS_Rerun(c, x)
    \/ \E ctx \in IMS_contexts :
          (\E f \in DOMAIN ctx :
              \A h \in DOMAIN ctx \ {f} : ctx[h] = context[h])
          /\ IMS_SetContext(ctx)
    \/ \E c \in IMS_keys :
          \E x \in SliderLevels(MEX_sliders[c]) : MEX_Rerun(c, x)
    \/ \E ctx \in MEX_contexts :
          (\E f \in DOMAIN ctx :
              \A h \in DOMAIN ctx \ {f} : ctx[h] = context[h])
          /\ MEX_SetContext(ctx)

Spec == Init /\ [][Next]_vars

(***************************************************************************)
(* PIP_prototype.py with its impact model: the improvement slider and      *)
(* four of the weight sliders are moved.                                   *)
(***************************************************************************)
\* the weight sliders that are moved
ImpactSliders ==
    {"democratic_empowerment", "information_integrity", "community_control",
     "sustainability"}

InitImpact ==
    \E perf \in PIP_load_infrastructure_data :
        \E out \in PIP_script(Defaults(PIP_sliders), perf, "none", NoImpact) :
            Start("PIP_prototype", Defaults(PIP_sliders), NoContext, perf, out)

NextImpact ==
    \/ \E c \in ImpactSliders :
          \E x \in SliderLevels(PIP_sliders[c]) : PIP_Rerun(c, x)
    \/ \E x \in SliderLevels(PIP_improvement_slider(performance, top_priority)) :
          PIP_SetImprovement(x)

SpecImpact == InitImpact /\ [][NextImpact]_vars

(***************************************************************************)
(* Two browser sessions of one dashboard.  Every run of a script starts    *)
(* from fresh module variables and the widget values of its own session;   *)
(* the sessions share the data cached by st.cache_data, drawn by the first *)
(* run.  Each session moves the first two weight sliders.                  *)
(***************************************************************************)
SessionSliders(v) == {Categories(v)[1], Categories(v)[2]}

InitSessions ==
    \E v \in {"Civic_KPIs", "civic_KPIs_prototype", "PIP_prototype",
               "IMS_PIA_prototype", "PIP_indicators_mexico_case"} :
        \E perf \in CASE v = "Civic_KPIs" -> CK_generate_sample_data
                      [] v = "civic_KPIs_prototype" -> CKP_current_performance
                      [] v = "PIP_prototype" -> PIP_load_infrastructure_data
                      [] v = "IMS_PIA_prototype" ->
                            {IMS_scores(IMS_default_context)}
                      [] OTHER -> {MEX_scores(MEX_default_context)} :
            LET ctx == CASE v = "IMS_PIA_prototype" -> IMS_default_context
                         [] v = "PIP_indicators_mexico_case" -> MEX_default_context
                         [] OTHER -> NoContext
                first == Script(v, Defaults(Sliders(v)), ctx, perf, "none", NoImpact)
            IN \E out \in first : \E out2 \in first :
                  /\ Displayed(v, Defaults(Sliders(v)), ctx, perf, out)
                  /\ other = Session(Defaults(Sliders(v)), ctx, out2)

\* Other_Rerun with the score of the run before left on display
Other_Rerun_stale_score(c, x) ==
    /\ x # other.raw[c]
    /\ \E out \in Script(variant, [other.raw EXCEPT ![c] = x], other.context,
                         performance, other.shown.top_priority,
                         other.shown.impact) :
          other' = Session([other.raw EXCEPT ![c] = x], other.context,
                           [out EXCEPT !.score = other.shown.score])
    /\ UNCHANGED <<variant, raw, context, performance, weights, score, gaps,
                   weighted_gaps, sorted_gaps, priorities, top_priority,
                   potential, impact, call, page, tools, tool_tab>>

\* a weight slider of the second session moves and the script runs again
\* for that session
Other_Rerun(c, x) ==
    /\ x # other.raw[c]
    /\ \E out \in Script(variant, [other.raw EXCEPT ![c] = x], other.context,
                         performance, other.shown.top_priority,
                         other.shown.impact) :
          other' = Session([other.raw EXCEPT ![c] = x], other.context, out)
    /\ UNCHANGED <<variant, raw, context, performance, weights, score, gaps,
                   weighted_gaps, sorted_gaps, priorities, top_priority,
                   potential, impact, call, page, tools, tool_tab>>

NextSessions ==
    \/ \E c \in SessionSliders("Civic_KPIs") :
          \E x \in SliderLevels(CK_sliders[c]) : CK_Rerun(c, x)
    \/ \E c \in SessionSliders("civic_KPIs_prototype") :
          \E x \in SliderLevels(CKP_sliders[c]) : CKP_Rerun(c, x)
    \/ \E c \in SessionSliders("PIP_prototype") :
          \E x \in SliderLevels(PIP_sliders[c]) : PIP_Rerun(c, x)
    \/ \E c \in SessionSliders("IMS_PIA_prototype") :
          \E x \in SliderLevels(IMS_sliders[c]) : IMS_Rerun(c, x)
    \/ \E c \in SessionSliders("PIP_indicators_mexico_case") :
          \E x \in SliderLevels(MEX_sliders[c]) : MEX_Rerun(c, x)
    \/ \E c \in SessionSliders(variant) :
          \E x \in SliderLevels(Sliders(variant)[c]) : Other_Rerun(c, x)

SpecSessions == InitSessions /\ [][NextSessions]_vars

(***************************************************************************)
(* The gap analysis of Civic_KPIs.py and civic_KPIs_prototype.py applied   *)
(* to performance data that is supplied to the script instead of drawn by  *)
(* its generator: the generators never draw a value of 0.7 or more for     *)
(* "Educate Me" or "Educate", so they never return the targets.            *)
(***************************************************************************)
\* the performance vectors supplied: some categories at their target, the
\* others all above it or all below it by MaxOffset
Supplied(targets) ==
    {[c \in DOMAIN targets |-> IF c \in Off THEN targets[c] + d ELSE targets[c]] :
        Off \in SUBSET DOMAIN targets, d \in {-MaxOffset, MaxOffset}}

InitSupplied ==
    \/ \E perf \in Supplied(Targets("Civic_KPIs")) :
          Start("Civic_KPIs", Defaults(CK_sliders), NoContext, perf,
                CK_script(Defaults(CK_sliders), perf))
    \/ \E perf \in Supplied(Targets("civic_KPIs_prototype")) :
          Start("civic_KPIs_prototype", Defaults(CKP_sliders), NoContext, perf,
                CKP_script(Defaults(CKP_sliders), perf))

NextSupplied ==
    \/ \E c \in CK_keys :
          \E x \in SliderLevels(CK_sliders[c]) : CK_Rerun(c, x)
    \/ \E c \in CKP_keys :
          \E x \in SliderLevels(CKP_sliders[c]) : CKP_Rerun(c, x)

SpecSupplied == InitSupplied /\ [][NextSupplied]_vars

(***************************************************************************)
(* The tool assessment of IMS_PIA_prototype.py and                         *)
(* PIP_indicators_mexico_case.py: one tool at a time is added to or taken  *)
(* from the multiselect, and main() runs again.                            *)
(***************************************************************************)
\* the multiselect of IMS_PIA_prototype.py changes by one tool
IMS_SelectTools(tool) ==
    /\ variant = "IMS_PIA_prototype"
    /\ tools' = IF tool \in tools THEN tools \ {tool} ELSE tools \cup {tool}
    /\ tool_tab' = IMS_tool_tab(tools')
    /\ \E out \in {IMS_script(raw, context)} : Shown(out)
    /\ UNCHANGED <<variant, raw, context, performance, other>>

\* the multiselect of PIP_indicators_mexico_case.py changes by one tool
MEX_SelectTools(tool) ==
    /\ variant = "PIP_indicators_mexico_case"
    /\ tools' = IF tool \in tools THEN tools \ {tool} ELSE tools \cup {tool}
    /\ tool_tab' = MEX_tool_tab(tools')
    /\ \E out \in {MEX_script(raw, context)} : Shown(out)
    /\ UNCHANGED <<variant, raw, context, performance, other>>

InitTools ==
    \/ Start("IMS_PIA_prototype", Defaults(IMS_sliders), IMS_default_context,
             IMS_scores(IMS_default_context),
             IMS_script(Defaults(IMS_sliders), IMS_default_context))
    \/ Start("PIP_indicators_mexico_case", Defaults(MEX_sliders),
             MEX_default_context, MEX_scores(MEX_default_context),
             MEX_script(Defaults(MEX_sliders), MEX_default_context))

NextTools ==
    \/ \E tool \in IMS_tool_options : IMS_SelectTools(tool)
    \/ \E tool \in MEX_tool_options : MEX_SelectTools(tool)

SpecTools == InitTools /\ [][NextTools]_vars

(***************************************************************************)
(* The scoring functions called on their own, with dictionaries whose keys *)
(* need not be the category set.                                           *)
(***************************************************************************)
Restrict(f, S) == [x \in S |-> f[x]]

\* the dictionary d itself and d with one key removed
DropOne(d) == {d} \cup {Restrict(d, DOMAIN d \ {k}) : k \in DOMAIN d}

\* the dictionaries of DropOne(d), each also with the additional key "other"
Dicts(d, v) == DropOne(d) \cup {e @@ ("other" :> v) : e \in DropOne(d)}

\* a weights mapping with the keys of num
WeightDict(num) == [num |-> num, den |-> SetSum(DOMAIN num, num)]

HalfWay(cats) == [k \in Range(cats) |-> 50]

CallOf(f, data, num, dimension) ==
    [function |-> f, data |-> data, weight_dict |-> WeightDict(num),
     dimension |-> dimension, result |-> Pending]

\* the calls the model enumerates
Calls ==
    {CallOf("Civic_KPIs.calculate_public_interest_score", d, n, "-") :
        d \in DropOne(HalfWay(CK_categories)),
        n \in Dicts(Defaults(CK_sliders), 10)}
    \cup
    {CallOf("PIP_prototype.calculate_weighted_score", d, n, "-") :
        d \in Dicts(HalfWay(PIP_categories), 50),
        n \in Dicts(Defaults(PIP_sliders), 2)}
    \cup
    {CallOf("IMS_PIA_prototype.calculate_overall_score", d, n, "-") :
        d \in {IMS_scores(IMS_default_context)},
        n \in Dicts(Defaults(IMS_sliders), 5)}
    \cup
    {CallOf("PIP_indicators_mexico_case.calculate_overall_score", d, n, "-") :
        d \in {MEX_scores(MEX_default_context)},
        n \in Dicts(Defaults(MEX_sliders), 5)}
    \cup
    {CallOf("IMS_PIA_prototype.calculate_dimension_score", d, <<>>, k) :
        d \in Dicts(IMS_scores(IMS_default_context), 50),
        k \in IMS_keys}
    \cup
    {CallOf("PIP_indicators_mexico_case.calculate_dimension_score", d, <<>>, k) :
        d \in Dicts(MEX_scores(MEX_default_context), 50),
        k \in IMS_keys}

InitCall ==
    /\ variant = "none"
    /\ raw = <<>>
    /\ context = NoContext
    /\ performance = <<>>
    /\ weights = WeightDict(<<>>)
    /\ score = 0
    /\ gaps = <<>>
    /\ weighted_gaps = <<>>
    /\ sorted_gaps = <<>>
    /\ priorities = <<>>
    /\ top_priority = "none"
    /\ potential = 0
    /\ impact = NoImpact
    /\ other = NoSession
    /\ page = <<>>
    /\ tools = {}
    /\ tool_tab = NoToolTab
    /\ call \in Calls

\* everything but the call in progress
display == <<variant, raw, context, performance, weights, score, gaps,
             weighted_gaps, sorted_gaps, priorities, top_priority, potential,
             impact, other, page, tools, tool_tab>>

CK_Call_calculate_public_interest_score ==
    /\ call.function = "Civic_KPIs.calculate_public_interest_score"
    /\ call.result = Pending
    /\ call' = [call EXCEPT !.result =
                   calculate_public_interest_score(call.data, call.weight_dict)]
    /\ UNCHANGED display

PIP_Call_calculate_weighted_score ==
    /\ call.function = "PIP_prototype.calculate_weighted_score"
    /\ call.result = Pending
    /\ call' = [call EXCEPT !.result =
                   calculate_weighted_score(call.data, call.weight_dict)]
    /\ UNCHANGED display

IMS_Call_calculate_overall_score ==
    /\ call.function = "IMS_PIA_prototype.calculate_overall_score"
    /\ call.result = Pending
    /\ call' = [call EXCEPT !.result =
                   IMS_calculate_overall_score(call.data["privacy"],
                       call.data["community"], call.data["sustainability"],
                       call.weight_dict)]
    /\ UNCHANGED display

MEX_Call_calculate_overall_score ==
    /\ call.function = "PIP_indicators_mexico_case.calculate_overall_score"
    /\ call.result = Pending
    /\ call' = [call EXCEPT !.result =
                   MEX_calculate_overall_score(call.data["privacy"],
                       call.data["community"], call.data["sustainability"],
                       call.weight_dict)]
    /\ UNCHANGED display

IMS_Call_calculate_dimension_score ==
    /\ call.function = "IMS_PIA_prototype.calculate_dimension_score"
    /\ call.result = Pending
    /\ call' = [call EXCEPT !.result =
                   IMS_calculate_dimension_score(call.data, call.dimension)]
    /\ UNCHANGED display

MEX_Call_calculate_dimension_score ==
    /\ call.function = "PIP_indicators_mexico_case.calculate_dimension_score"
    /\ call.result = Pending
    /\ call' = [call EXCEPT !.result =
                   MEX_calculate_dimension_score(call.data, call.dimension)]
    /\ UNCHANGED display

NextCall ==
    \/ CK_Call_calculate_public_interest_score
    \/ PIP_Call_calculate_weighted_score
    \/ IMS_Call_calculate_overall_score
    \/ MEX_Call_calculate_overall_score
    \/ IMS_Call_calculate_dimension_score
    \/ MEX_Call_calculate_dimension_score

SpecCall == InitCall /\ [][NextCall]_vars

(***************************************************************************)
(* Properties.                                                             *)
(***************************************************************************)
Cats == Range(Categories(variant))

RawTotal == SetSum(Cats, raw)

WeightTotal == SetSum(Cats, weights.num)

\* C1: the composite score on display is the sum, over every category of the
\* variant's category set, of performance[c] * normalized_weight[c]; raw
\* weights 4, 3, 3 with performance 0.6, 0.4, 0.8 give 0.60.
C1_ScoreIsSumOverAllCategories ==
    /\ DOMAIN weights.num = Cats
    /\ score = SetSum(Cats, [c \in Cats |-> performance[c] * weights.num[c]])
    /\ LET w == IMS_weights(("privacy" :> 4) @@ ("community" :> 3)
                            @@ ("sustainability" :> 3))
       IN IMS_calculate_overall_score(60, 40, 80, w) = Ok(60 * w.den)

\* a slider of PIP_prototype.py has been moved and a score is on display
C1_Witness ==
    /\ variant = "PIP_prototype"
    /\ raw # Defaults(PIP_sliders)
    /\ score > 0
    /\ \A c \in Cats : weights.num[c] > 0 /\ performance[c] > 0

\* C2: when the raw weights are non-negative with a positive total, every
\* normalized weight is raw[c] / sum(raw) and the weights sum to 1.
C2_PositiveTotalNormalizes ==
    RawTotal > 0 =>
        /\ weights.den > 0
        /\ \A c \in Cats : weights.num[c] * RawTotal = raw[c] * weights.den
        /\ WeightTotal = weights.den

\* some sliders of civic_KPIs_prototype.py are at zero, others are not
C2_Witness ==
    /\ variant = "civic_KPIs_prototype"
    /\ RawTotal > 0
    /\ \E c \in Cats : raw[c] = 0
    /\ \E c \in Cats : raw[c] > 0 /\ weights.num[c] < weights.den

\* C3: when every raw weight is zero, every normalized weight is 1/N.
C3_AllZeroGivesUniform ==
    (\A c \in Cats : raw[c] = 0) =>
        \A c \in Cats : weights.num[c] * Cardinality(Cats) = weights.den

\* C4: when the raw weights sum to zero, the normalized weights have an entry
\* for every category and sum to 1.
C4_ZeroTotalSumsToOne ==
    RawTotal = 0 =>
        /\ DOMAIN weights.num = Cats
        /\ WeightTotal = weights.den

\* C5: with every performance value in [0, 1] the composite score is in
\* [0, 1], for every slider setting.
C5_ScoreInUnitInterval ==
    (\A c \in Cats : performance[c] \in 0..100) =>
        /\ 0 <= score
        /\ score <= 100 * weights.den

\* every slider of Civic_KPIs.py is at zero: the fallback weights are used
C5_Witness ==
    /\ variant = "Civic_KPIs"
    /\ RawTotal = 0
    /\ score > 0

\* C6: every normalized weight is a fraction in [0, 1].
C6_WeightsAreFractions ==
    /\ weights.den > 0
    /\ \A c \in Cats : 0 <= weights.num[c] /\ weights.num[c] <= weights.den

\* one slider of IMS_PIA_prototype.py carries the whole weight
C6_Witness ==
    /\ variant = "IMS_PIA_prototype"
    /\ \E c \in Cats : raw[c] > 0 /\ weights.num[c] = weights.den
    /\ \E c \in Cats : weights.num[c] = 0

\* C7: a call of a scoring function whose performance and weights do not
\* have the same categories fails with an error: it returns no score
\* computed from the common categories and no default value.
C7_MismatchFails ==
    call.result.status = "ok" =>
        IF call.function \in {"IMS_PIA_prototype.calculate_dimension_score",
                              "PIP_indicators_mexico_case.calculate_dimension_score"}
        THEN call.dimension \in DOMAIN call.data
        ELSE DOMAIN call.data = DOMAIN call.weight_dict.num

\* C8: only categories with gap > 0 are presented as priorities: every
\* category is in the ranking, every displayed priority has gap > 0, and the
\* top priority of PIP_prototype.py (alert and impact model) has gap > 0.
C8_PrioritiesHavePositiveGap ==
    /\ variant \in {"Civic_KPIs", "civic_KPIs_prototype", "PIP_prototype"}
          => Range(sorted_gaps) = Cats
    /\ \A i \in 1..Len(priorities) : gaps[priorities[i]] > 0
    /\ variant = "PIP_prototype" => gaps[top_priority] > 0

\* C9: the raw-gap ranking of Civic_KPIs.py holds every category once, in
\* descending order of gap = target - current, and the Biggest Gap of
\* civic_KPIs_prototype.py is a category no other category has a larger gap
\* than, the head of the raw-gap ranking.
C9_RawGapRanking ==
    /\ \A c \in Cats : gaps[c] = Targets(variant)[c] - performance[c]
    /\ variant = "Civic_KPIs" =>
          /\ Len(sorted_gaps) = Cardinality(Cats)
          /\ Range(sorted_gaps) = Cats
          /\ \A i, j \in 1..Len(sorted_gaps) :
                i < j => gaps[sorted_gaps[i]] >= gaps[sorted_gaps[j]]
    /\ variant = "civic_KPIs_prototype" =>
          /\ \A c \in Cats : gaps[top_priority] >= gaps[c]
          /\ top_priority = SortedReverse(CKP_categories, gaps)[1]
    /\ SortedReverse(<<"A", "B", "C">>, ("A" :> 10) @@ ("B" :> 25) @@ ("C" :> -30))
          = <<"B", "A", "C">>

\* Civic_KPIs.py ranks a category above its target last and another
\* category than the first of the category set first
C9_Witness ==
    /\ variant = "Civic_KPIs"
    /\ gaps[sorted_gaps[Len(sorted_gaps)]] < 0
    /\ sorted_gaps[1] # CK_categories[1]
    /\ gaps[sorted_gaps[1]] > gaps[sorted_gaps[2]]

\* the place of x in the sequence s
Position(s, x) == CHOOSE i \in 1..Len(s) : s[i] = x

\* the key the ranking on display is sorted by
RankingKey ==
    CASE variant = "Civic_KPIs" -> gaps
      [] variant = "civic_KPIs_prototype" ->
            [c \in Cats |-> gaps[c] * weights.num[c]]
      [] OTHER -> [c \in Cats |-> Abs(gaps[c] * weights.num[c])]

\* C10: the weighted ranking is in descending order of the signed weighted
\* gap, so a category above its target never ranks above a category that is
\* below its target and has a positive weight.
C10_WeightedRankingIsSigned ==
    variant \in {"civic_KPIs_prototype", "PIP_prototype"} =>
        \A i, j \in 1..Len(sorted_gaps) :
            i < j =>
                /\ gaps[sorted_gaps[i]] * weights.num[sorted_gaps[i]]
                      >= gaps[sorted_gaps[j]] * weights.num[sorted_gaps[j]]
                /\ ~(/\ gaps[sorted_gaps[i]] < 0
                     /\ gaps[sorted_gaps[j]] > 0
                     /\ weights.num[sorted_gaps[j]] > 0)

\* C11: two categories with equal ranking keys appear in the ranking in the
\* insertion order of the category set, in the raw-gap ranking of
\* Civic_KPIs.py, the weighted ranking of civic_KPIs_prototype.py and the
\* data-frame sort of PIP_prototype.py; the Biggest Gap is the first of the
\* categories with the largest gap.
C11_TiesKeepInsertionOrder ==
    /\ variant \in {"Civic_KPIs", "civic_KPIs_prototype", "PIP_prototype"} =>
          \A i, j \in 1..Len(sorted_gaps) :
              (i < j /\ RankingKey[sorted_gaps[i]] = RankingKey[sorted_gaps[j]])
                  => Position(Categories(variant), sorted_gaps[i])
                        < Position(Categories(variant), sorted_gaps[j])
    /\ variant = "civic_KPIs_prototype" =>
          \A c \in Cats :
              gaps[c] = gaps[top_priority]
                  => Position(CKP_categories, top_priority)
                        <= Position(CKP_categories, c)

\* C12: for every category the gap entry holds gap = target - performance,
\* negative when the category is above its target, and the weighted gap
\* gap * normalized weight (civic_KPIs_prototype.py: weighted_gaps,
\* PIP_prototype.py: the Priority Score column), from the performance vector
\* the composite score is computed from.
C12_GapEntries ==
    /\ \A c \in Cats :
          /\ gaps[c] = Targets(variant)[c] - performance[c]
          /\ performance[c] > Targets(variant)[c] => gaps[c] < 0
    /\ variant \in {"civic_KPIs_prototype", "PIP_prototype"} =>
          /\ DOMAIN weighted_gaps = Cats
          /\ \A c \in Cats : weighted_gaps[c] = gaps[c] * weights.num[c]
          /\ score = SetSum(Cats, [c \in Cats |->
                                    performance[c] * weights.num[c]])

\* C13: when the performance equals the target in every category, every gap
\* is 0 and no priority is displayed, whatever the weights.
C13_AtTargetNoPriorities ==
    (\A c \in Cats : performance[c] = Targets(variant)[c]) =>
        /\ \A c \in Cats : gaps[c] = 0
        /\ priorities = <<>>

\* civic_KPIs_prototype.py is supplied with its targets as performance and
\* a slider has been moved
C13_Witness ==
    /\ variant = "civic_KPIs_prototype"
    /\ \A c \in Cats : performance[c] = CKP_targets[c]
    /\ raw # Defaults(CKP_sliders)
    /\ RawTotal > 0
    /\ Len(sorted_gaps) = 5
    /\ priorities = <<>>

KeysInOrder(ranking, key) == [i \in 1..Len(ranking) |-> key[ranking[i]]]

C16_DisplayIsOfCurrentSliders ==
    \E out \in Script(variant, raw, context, performance, top_priority, impact) :
        /\ weights = out.weights
        /\ score = out.score
        /\ gaps = out.gaps
        /\ weighted_gaps = out.weighted_gaps
        /\ sorted_gaps = out.sorted_gaps
        /\ priorities = out.priorities
        /\ top_priority = out.top_priority

\* three sliders of civic_KPIs_prototype.py are away from their defaults, one
\* of them back at zero, and the weighted ranking differs from the ranking
\* of the default weights
C16_Witness ==
    /\ variant = "civic_KPIs_prototype"
    /\ Cardinality({c \in Cats : raw[c] # CKP_sliders[c].default}) >= 3
    /\ RawTotal > 0
    /\ sorted_gaps # CKP_script(Defaults(CKP_sliders), performance).sorted_gaps
    /\ score # 0

\* C17: with two sessions interleaved, a weight change of one session never
\* alters the weights, score, gaps or ranking of the other session, and the
\* cached performance data, the only data the sessions share, is never
\* written after it was generated.
C17_SessionsDoNotInterfere ==
    [][/\ performance' = performance
       /\ raw' # raw => other' = other
       /\ other' # other =>
             UNCHANGED <<raw, weights, score, gaps, weighted_gaps, sorted_gaps,
                         priorities, top_priority, potential, impact>>]_vars

\* the two sessions of Civic_KPIs.py have both moved sliders, to different
\* positions, and display different weights and scores from the same cached
\* data
C17_Witness ==
    /\ variant = "Civic_KPIs"
    /\ raw # Defaults(CK_sliders)
    /\ other.raw # Defaults(CK_sliders)
    /\ other.raw # raw
    /\ other.shown.weights # weights
    /\ other.shown.score * weights.den # score * other.shown.weights.den
    /\ other.shown.gaps = gaps

\* C18: no variant divides by zero while normalizing: the divisor is never
\* 0; PIP_prototype.py divides by the slider total, which its slider lower
\* bounds keep at 0.5 (10 steps of 0.05) or more; the other variants divide
\* by the total only when it is positive.
C18_NoDivisionByZero ==
    /\ weights.den # 0
    /\ variant = "PIP_prototype" =>
          /\ weights.den = RawTotal
          /\ RawTotal >= 10
    /\ (variant # "PIP_prototype" /\ weights.den = RawTotal) => RawTotal > 0

\* every weight slider of PIP_prototype.py is at its lower bound
C18_Witness ==
    /\ variant = "PIP_prototype"
    /\ \A c \in Cats : raw[c] = PIP_sliders[c].min
    /\ RawTotal = 10
    /\ weights.den = 10

\* the categories of the ranking with gap > 0, in ranking order
PositiveGaps == Filter(sorted_gaps, {c \in Cats : gaps[c] > 0})

\* C19: the recommendations of civic_KPIs_prototype.py (and the priority
\* areas of Civic_KPIs.py) are exactly the first min(3, k) categories with
\* gap > 0 of the ranking, in ranking order, k being the number of categories
\* with gap > 0: no category with gap <= 0 takes one of the first 3 places
\* of the ranking from a category with gap > 0, also when weights are zero
\* and weighted gaps tie at 0.
C19_TopThreePositive ==
    variant \in {"Civic_KPIs", "civic_KPIs_prototype"} =>
        /\ priorities = Take(PositiveGaps, 3)
        /\ \A i \in 1..Min(3, Len(sorted_gaps)) :
              gaps[sorted_gaps[i]] <= 0 => Len(PositiveGaps) < i

\* civic_KPIs_prototype.py with Update at or above its target, three
\* sliders at zero and weighted gaps tied at 0
C19_Witness ==
    /\ variant = "civic_KPIs_prototype"
    /\ gaps["Update"] <= 0
    /\ Cardinality({c \in Cats : raw[c] = 0}) >= 3
    /\ RawTotal > 0
    /\ Cardinality({c \in Cats : weighted_gaps[c] = 0}) >= 3
    /\ Len(priorities) = 3

\* C20: the Improvement Potential of civic_KPIs_prototype.py is never
\* negative, equals the increase of the score when every category below its
\* target is raised to the target and the others are left as they are, and
\* score + potential never exceeds 1.
C20_PotentialIsScoreIncrease ==
    variant = "civic_KPIs_prototype" =>
        LET raised == [c \in Cats |->
                          IF performance[c] < CKP_targets[c]
                          THEN CKP_targets[c] ELSE performance[c]]
        IN /\ potential >= 0
           /\ potential = CKP_public_interest_score(raised, weights) - score
           /\ score + potential <= 100 * weights.den

\* Update is above its target and has a positive weight, a slider has been
\* moved and there is potential
C20_Witness ==
    /\ variant = "civic_KPIs_prototype"
    /\ raw # Defaults(CKP_sliders)
    /\ gaps["Update"] < 0
    /\ weights.num["Update"] > 0
    /\ potential > 0

\* C21: in IMS_PIA_prototype.py every tool selected in the multiselect has
\* a red circle in the Privacy-vs-Reach chart, for every selection, the
\* default one included.
C21_SelectedToolsAreCircled ==
    variant = "IMS_PIA_prototype" =>
        \A tool \in tools : tool \in tool_tab.red_circles

\* C22: the warning about tools with PI alignment below 50% is shown if and
\* only if some selected tool has (Privacy + Control) / 2 below 0.5, a tool
\* absent from the score table scoring 0.5 on every axis.
C22_WarningIffToolBelowFifty ==
    variant \in {"IMS_PIA_prototype", "PIP_indicators_mexico_case"} =>
        LET table == IF variant = "IMS_PIA_prototype"
                     THEN IMS_tool_scores ELSE MEX_tool_scores
        IN tool_tab.warning <=>
              \E tool \in tools :
                  ToolScoreOf(table, tool).Privacy
                  + ToolScoreOf(table, tool).Control < 100

\* C23: in PIP_prototype.py the impact-modelling slider is always created
\* with a valid default: min(target, 0.9) of the top-priority category lies
\* between the slider's lower bound, the current performance of that
\* category, and its upper bound 1.0.
C23_ImprovementDefaultIsValid ==
    variant = "PIP_prototype" =>
        LET sl == PIP_improvement_slider(performance, top_priority)
        IN /\ sl.min <= sl.default
           /\ sl.default <= sl.max
           /\ impact.status = "ok"

\* C24: in PIP_prototype.py the Critical Gap Alert agrees with the status
\* of the Performance Summary: when the alert is shown its category has
\* status "Critical Gap", and when some category has status "Critical Gap"
\* the alert is shown, for a category with that status.
C24_AlertAgreesWithStatus ==
    variant = "PIP_prototype" =>
        /\ priorities # <<>> => page.status[priorities[1]] = "Critical Gap"
        /\ (\E k \in PIP_keys : page.status[k] = "Critical Gap") =>
              /\ priorities # <<>>
              /\ page.status[priorities[1]] = "Critical Gap"

\* C25: in Civic_KPIs.py and civic_KPIs_prototype.py every category shown
\* as a priority has its recommendation block rendered.
C25_PrioritiesHaveRecommendations ==
    variant \in {"Civic_KPIs", "civic_KPIs_prototype"} =>
        \A category \in Range(priorities) : category \in page.blocks

\* C26: in IMS_PIA_prototype.py and PIP_indicators_mexico_case.py the
\* "Primary Gaps" of the report are the areas of the recommendations of the
\* recommendations tab, in the same order, and "Key Recommendations" has
\* one action for each primary gap, at most 3.
C26_ReportMatchesRecommendations ==
    variant \in {"IMS_PIA_prototype", "PIP_indicators_mexico_case"} =>
        LET recommendations == page.recommendations
            report_data == page.report_data
        IN /\ report_data.Primary_Gaps =
                 [i \in 1..Len(recommendations) |-> recommendations[i].Area]
           /\ Len(report_data.Key_Recommendations)
                 = Len(report_data.Primary_Gaps)
           /\ Len(report_data.Key_Recommendations) <= 3

\* C27: in IMS_PIA_prototype.py and PIP_indicators_mexico_case.py the
\* overall score is between 0.3 and 0.7, and so below the 75% target, for
\* every context and every setting of the weight sliders, the all-zero
\* one with its fallback weights included.
C27_OverallScoreBelowTarget ==
    variant \in {"IMS_PIA_prototype", "PIP_indicators_mexico_case"} =>
        /\ 30 * weights.den <= score
        /\ score <= 70 * weights.den
        /\ score < 75 * weights.den

\* the sliders are all at 0, the fallback weights are in use, and the
\* context is not the default one
C27_Witness ==
    /\ variant = "IMS_PIA_prototype"
    /\ RawTotal = 0
    /\ weights.den = 100
    /\ context # IMS_default_context
    /\ score > 30 * weights.den

====
